---- MODULE Spec2Model ----
(***************************************************************************)
(* eGFR calculator (src/src/App.js): the EGFRCalculator component's state  *)
(* (formData, errors, result, formula), its handlers (handleInputChange,   *)
(* calculate, reset), the validation effect, the validators, the unit      *)
(* conversion, the two formulas and the KDIGO stage lookup.                *)
(*                                                                         *)
(* Text fields are sequences of characters; parseFloat parses them.  A JS  *)
(* number is a pair <<n, d>> standing for n/d in lowest terms with d > 0;  *)
(* <<1, 0>> and <<-1, 0>> are +Infinity and -Infinity and <<0, 0>> is NaN. *)
(* The unit 'µmol/L' is written "umol/L".                                  *)
(***************************************************************************)
EXTENDS Integers, Sequences, FiniteSets, TLC

\* formData, errors, result and formula are the component's four useState
\* cells; display is what ResultsDisplay renders from result and formula;
\* lastOp names the handler that ran last.
VARIABLES formData, errors, result, formula, display, lastOp

vars == <<formData, errors, result, formula, display, lastOp>>

(***************************************************************************)
(* Bounds: how many of the sample texts below each field may be given, in  *)
(* the calculator (Spec) and in the form grid (SpecForm).                  *)
(***************************************************************************)
NumAgeInputs == 4

NumCreatinineInputs == 3

NumHeightInputs == 4

NumFormAges == 9

NumFormCreatinines == 9

NumFormHeights == 7

\* the stage lookup is exercised on the eGFR values -MaxEGFR .. MaxEGFR
MaxEGFR == 120

AgeTexts ==
  << <<"1","0">>, <<"1","8">>, <<"0",".","5">>, <<"1","5","0">>, <<"1">>,
     <<"1","2","0">>, <<"1","7",".","9">>, <<"7","0">>, <<"1","2","1">>, <<"0">> >>

CreatinineTexts ==
  << <<"0",".","5">>, <<"2","5">>, <<"0">>, <<"1","7","6","8">>, <<"1","7","6","9">>,
     <<"2","0">>, <<"4","4",".","2">>, <<"1">>, <<"2","0",".","1">>, <<"-","1">> >>

HeightTexts ==
  << <<"1","2","0">>, <<"2","9">>, <<"3","0">>, <<"2","5","0">>, <<"2","5","1">>,
     <<"5","0">>, <<"2","9",".","9">>, <<"0">> >>

Min(a, b) == IF a < b THEN a ELSE b

FirstOf(texts, n) == {texts[i] : i \in 1..Min(n, Len(texts))}

AgeInputs == {<<>>} \cup FirstOf(AgeTexts, NumAgeInputs)

CreatinineInputs == {<<>>} \cup FirstOf(CreatinineTexts, NumCreatinineInputs)

HeightInputs == {<<>>} \cup FirstOf(HeightTexts, NumHeightInputs)

SexInputs == {"", "male", "female"}

UnitInputs == {"mg/dL", "umol/L"}

(***************************************************************************)
(* JS numbers.                                                             *)
(***************************************************************************)
NaN == <<0, 0>>

Infinity == <<1, 0>>

isNaN(x) == x = NaN

isFinite(x) == x[2] # 0

Num(k) == <<k, 1>>

RECURSIVE GCD(_, _)
GCD(a, b) == IF b = 0 THEN a ELSE GCD(b, a % b)

Abs(a) == IF a < 0 THEN -a ELSE a

\* the number n/d in lowest terms, d > 0; x/0 is an infinity and 0/0 is NaN
Norm(n, d) ==
  LET g == GCD(Abs(n), Abs(d))
      s == IF d < 0 THEN -1 ELSE 1
  IN  IF g = 0 THEN NaN ELSE <<s * (n \div g), s * (d \div g)>>

\* comparisons are false when an operand is NaN
Lt(a, b) == ~isNaN(a) /\ ~isNaN(b) /\ a[1] * b[2] < b[1] * a[2]

Le(a, b) == ~isNaN(a) /\ ~isNaN(b) /\ a[1] * b[2] <= b[1] * a[2]

Gt(a, b) == Lt(b, a)

Ge(a, b) == Le(b, a)

Mul(a, b) == IF isNaN(a) \/ isNaN(b) THEN NaN ELSE Norm(a[1] * b[1], a[2] * b[2])

Div(a, b) == IF isNaN(a) \/ isNaN(b) THEN NaN ELSE Norm(a[1] * b[2], a[2] * b[1])

\* Math.round: the nearest integer, halves towards +infinity
Math_round(x) == IF isFinite(x) THEN Num((2 * x[1] + x[2]) \div (2 * x[2])) ELSE x

(***************************************************************************)
(* parseFloat over the characters 0-9, "." and "-": the longest prefix     *)
(* that is a decimal literal, NaN when there is none.                      *)
(***************************************************************************)
DigitVal ==
  [c \in {"0","1","2","3","4","5","6","7","8","9"} |->
     CASE c = "0" -> 0 [] c = "1" -> 1 [] c = "2" -> 2 [] c = "3" -> 3
       [] c = "4" -> 4 [] c = "5" -> 5 [] c = "6" -> 6 [] c = "7" -> 7
       [] c = "8" -> 8 [] c = "9" -> 9]

IsDigit(c) == c \in DOMAIN DigitVal

\* <<value, scale, next index>> after reading the digits from position i
RECURSIVE ScanDigits(_, _, _, _)
ScanDigits(s, i, acc, scale) ==
  IF i <= Len(s) /\ IsDigit(s[i])
    THEN ScanDigits(s, i + 1, acc * 10 + DigitVal[s[i]], scale * 10)
    ELSE <<acc, scale, i>>

parseFloat(s) ==
  LET neg == Len(s) >= 1 /\ s[1] = "-"
      start == IF neg THEN 2 ELSE 1
      ip == ScanDigits(s, start, 0, 1)
      hasInt == ip[3] > start
      hasDot == ip[3] <= Len(s) /\ s[ip[3]] = "."
      fp == IF hasDot THEN ScanDigits(s, ip[3] + 1, ip[1], 1) ELSE <<ip[1], 1, ip[3]>>
      hasFrac == hasDot /\ fp[3] > ip[3] + 1
  IN  IF ~hasInt /\ ~hasFrac
        THEN NaN
        ELSE Norm(IF neg THEN -fp[1] ELSE fp[1], fp[2])

\* a string is truthy when it is not empty
Truthy(s) == Len(s) > 0

(***************************************************************************)
(* Constants for formulas (lines 8-20) and CKD staging (lines 23-30).      *)
(***************************************************************************)
FORMULAS ==
  [CKD_EPI_2021 |->
     [name |-> "CKD-EPI 2021",
      constants |->
        [female |-> [kappa |-> <<7, 10>>, alpha |-> <<-241, 1000>>, sexFactor |-> <<1012, 1000>>],
         male |-> [kappa |-> <<9, 10>>, alpha |-> <<-302, 1000>>, sexFactor |-> <<1, 1>>]]],
   SCHWARTZ_2009 |->
     [name |-> "Bedside Schwartz 2009", constant |-> <<413, 1000>>]]

CKD_STAGES ==
  [G1 |-> [min |-> 90, label |-> "Normal or high", risk |-> "Low"],
   G2 |-> [min |-> 60, max |-> 89, label |-> "Mildly decreased", risk |-> "Low"],
   G3a |-> [min |-> 45, max |-> 59, label |-> "Mild to moderately decreased", risk |-> "Moderate"],
   G3b |-> [min |-> 30, max |-> 44, label |-> "Moderate to severely decreased", risk |-> "High"],
   G4 |-> [min |-> 15, max |-> 29, label |-> "Severely decreased", risk |-> "Very High"],
   G5 |-> [max |-> 14, label |-> "Kidney failure", risk |-> "Very High"]]

null == "null"

(***************************************************************************)
(* Validation schemas.                                                     *)
(***************************************************************************)
\* validateAge rejecting the bounds themselves
validateAge_exclusive(age) ==
  LET numAge == parseFloat(age)
  IN  IF isNaN(numAge) \/ Le(numAge, Num(1)) THEN "Age must be >= 1 year"
      ELSE IF Ge(numAge, Num(120)) THEN "Please verify age > 120 years"
      ELSE null

validateAge(age) ==
  LET numAge == parseFloat(age)
  IN  IF isNaN(numAge) \/ Lt(numAge, Num(1)) THEN "Age must be >= 1 year"
      ELSE IF Gt(numAge, Num(120)) THEN "Please verify age > 120 years"
      ELSE null

\* validateCreatinine applying the mg/dL threshold under either unit
validateCreatinine_crossApplied(value, unit) ==
  LET num == parseFloat(value)
  IN  IF isNaN(num) \/ Le(num, Num(0)) THEN "Creatinine must be > 0"
      ELSE IF Gt(num, Num(20)) THEN "Please verify creatinine > 20 mg/dL"
      ELSE IF unit = "umol/L" /\ Gt(num, Num(1768)) THEN "Please verify creatinine > 1768 umol/L"
      ELSE null

\* validateCreatinine with < in place of <=, which lets zero through
validateCreatinine_zeroAccepted(value, unit) ==
  LET num == parseFloat(value)
  IN  IF isNaN(num) \/ Lt(num, Num(0)) THEN "Creatinine must be > 0"
      ELSE IF unit = "mg/dL" /\ Gt(num, Num(20)) THEN "Please verify creatinine > 20 mg/dL"
      ELSE IF unit = "umol/L" /\ Gt(num, Num(1768)) THEN "Please verify creatinine > 1768 umol/L"
      ELSE null

validateCreatinine(value, unit) ==
  LET num == parseFloat(value)
  IN  IF isNaN(num) \/ Le(num, Num(0)) THEN "Creatinine must be > 0"
      ELSE IF unit = "mg/dL" /\ Gt(num, Num(20)) THEN "Please verify creatinine > 20 mg/dL"
      ELSE IF unit = "umol/L" /\ Gt(num, Num(1768)) THEN "Please verify creatinine > 1768 umol/L"
      ELSE null

validateHeight(height) ==
  LET num == parseFloat(height)
  IN  IF isNaN(num) \/ Lt(num, Num(30)) \/ Gt(num, Num(250))
        THEN "Height must be between 30-250 cm"
        ELSE null

(***************************************************************************)
(* Math.pow in fixed point: a value v stands for v / ONE.  The integers    *)
(* here are 32 bits wide, so the product of line 63 is evaluated as the    *)
(* exponential of the sum of the factors' logarithms, pow(x, y) being      *)
(* exp(y * ln x): ln by the atanh series after halving or doubling into    *)
(* [3/4, 3/2), exp by the Taylor series after taking out powers of two.    *)
(***************************************************************************)
ONE == 10 ^ 8

\* a / b to the nearest integer, for b > 0
RoundDiv(a, b) == (2 * a + b) \div (2 * b)

\* n * ONE / d, for d > 0
FixDiv(n, d) ==
  LET r1 == (n % d) * 100
      r2 == (r1 % d) * 100
      r3 == (r2 % d) * 100
      r4 == (r3 % d) * 100
  IN  (n \div d) * ONE + (r1 \div d) * (10 ^ 6) + (r2 \div d) * (10 ^ 4)
        + (r3 \div d) * 100 + RoundDiv(r4, d)

\* a * b / ONE
FixMul(a, b) ==
  LET a1 == a \div (10 ^ 4)
      a0 == a % (10 ^ 4)
      b1 == b \div (10 ^ 4)
      b0 == b % (10 ^ 4)
  IN  a1 * b1 + RoundDiv(a1 * b0 + a0 * b1 + RoundDiv(a0 * b0, 10 ^ 4), 10 ^ 4)

\* v * x for a fixed-point v and a number x
MulNum(v, x) == (v \div x[2]) * x[1] + RoundDiv((v % x[2]) * x[1], x[2])

\* z^k/k + z^(k+2)/(k+2) + ... up to the power 19, zk = z^k
RECURSIVE AtanhSeries(_, _, _)
AtanhSeries(zk, z2, k) ==
  IF k > 19 THEN 0 ELSE RoundDiv(zk, k) + AtanhSeries(FixMul(zk, z2), z2, k + 2)

\* 2 * atanh(z) = ln((1 + z) / (1 - z))
Atanh2(z) == 2 * AtanhSeries(z, FixMul(z, z), 1)

LN2 == Atanh2(FixDiv(1, 3))

\* ln(n / d) for n, d > 0
RECURSIVE Math_log(_, _)
Math_log(n, d) ==
  IF 2 * n >= 3 * d THEN LN2 + Math_log(n, 2 * d)
  ELSE IF 4 * n < 3 * d THEN Math_log(2 * n, d) - LN2
  ELSE Atanh2(FixDiv(n - d, n + d))

\* 1 + r + r^2/2! + ... up to the power 13, term = r^(i-1)/(i-1)!
RECURSIVE ExpSeries(_, _, _)
ExpSeries(term, r, i) ==
  IF i > 14 THEN 0 ELSE term + ExpSeries(RoundDiv(FixMul(term, r), i), r, i + 1)

\* ln of Math.pow(x, y) for a number x > 0
LogPow(x, y) == MulNum(Math_log(x[1], x[2]), y)

\* Math.round(exp(v)): exp(v) is e * 2^k with e in [1, 2), and ONE is 2^8 * 5^8
RoundExp(v) ==
  LET k == v \div LN2
      e == ExpSeries(ONE, v - k * LN2, 1)
      twice == IF k < -2 THEN 0
               ELSE IF k <= 7 THEN e \div ((2 ^ (7 - k)) * (5 ^ 8))
               ELSE (e * (2 ^ (k - 7))) \div (5 ^ 8)
  IN  (twice + 1) \div 2

Math_min(a, b) == IF isNaN(a) \/ isNaN(b) THEN NaN ELSE IF Lt(b, a) THEN b ELSE a

Math_max(a, b) == IF isNaN(a) \/ isNaN(b) THEN NaN ELSE IF Gt(b, a) THEN b ELSE a

(***************************************************************************)
(* Calculation functions.                                                  *)
(***************************************************************************)
\* calculateCKDEPI2021 with the race coefficient 1.159 of the 2009 equation
calculateCKDEPI2021_race(creatinine, age, isFemale) ==
  LET constants == IF isFemale THEN FORMULAS.CKD_EPI_2021.constants.female
                               ELSE FORMULAS.CKD_EPI_2021.constants.male
      ratio == Div(creatinine, constants.kappa)
      minVal == Math_min(ratio, Num(1))
      maxVal == Math_max(ratio, Num(1))
      logEGFR == Math_log(142, 1)
                   + LogPow(minVal, constants.alpha)
                   + LogPow(maxVal, <<-1200, 1000>>)
                   + LogPow(<<9938, 10000>>, age)
                   + Math_log(constants.sexFactor[1], constants.sexFactor[2])
                   + Math_log(1159, 1000)
  IN  IF isNaN(ratio) \/ isNaN(age) \/ Lt(ratio, Num(0)) THEN NaN
      ELSE IF ratio = Num(0) THEN Infinity
      ELSE IF ~isFinite(ratio) \/ ~isFinite(age) THEN NaN
      ELSE Num(RoundExp(logEGFR))

calculateCKDEPI2021(creatinine, age, isFemale) ==
  LET constants == IF isFemale THEN FORMULAS.CKD_EPI_2021.constants.female
                               ELSE FORMULAS.CKD_EPI_2021.constants.male
      ratio == Div(creatinine, constants.kappa)
      minVal == Math_min(ratio, Num(1))
      maxVal == Math_max(ratio, Num(1))
      logEGFR == Math_log(142, 1)
                   + LogPow(minVal, constants.alpha)
                   + LogPow(maxVal, <<-1200, 1000>>)
                   + LogPow(<<9938, 10000>>, age)
                   + Math_log(constants.sexFactor[1], constants.sexFactor[2])
  IN  \* Math.pow of NaN, of a negative base with a fractional exponent, of 0
      \* with a negative exponent and of Infinity with a negative exponent
      IF isNaN(ratio) \/ isNaN(age) \/ Lt(ratio, Num(0)) THEN NaN
      ELSE IF ratio = Num(0) THEN Infinity
      ELSE IF ~isFinite(ratio) \/ ~isFinite(age) THEN NaN
      ELSE Num(RoundExp(logEGFR))

\* calculateSchwartz2009 with Math.floor in place of Math.round
calculateSchwartz2009_floor(creatinine, height) ==
  LET eGFR == Div(Mul(FORMULAS.SCHWARTZ_2009.constant, height), creatinine)
  IN  IF isFinite(eGFR) THEN Num(eGFR[1] \div eGFR[2]) ELSE eGFR

calculateSchwartz2009(creatinine, height) ==
  LET eGFR == Div(Mul(FORMULAS.SCHWARTZ_2009.constant, height), creatinine)
  IN  Math_round(eGFR)

\* getCKDStage with > in place of >=
getCKDStage_exclusive(eGFR) ==
  IF Gt(eGFR, Num(90)) THEN [stage |-> "G1", label |-> CKD_STAGES.G1.label, risk |-> CKD_STAGES.G1.risk]
  ELSE IF Gt(eGFR, Num(60)) THEN [stage |-> "G2", label |-> CKD_STAGES.G2.label, risk |-> CKD_STAGES.G2.risk]
  ELSE IF Gt(eGFR, Num(45)) THEN [stage |-> "G3a", label |-> CKD_STAGES.G3a.label, risk |-> CKD_STAGES.G3a.risk]
  ELSE IF Gt(eGFR, Num(30)) THEN [stage |-> "G3b", label |-> CKD_STAGES.G3b.label, risk |-> CKD_STAGES.G3b.risk]
  ELSE IF Gt(eGFR, Num(15)) THEN [stage |-> "G4", label |-> CKD_STAGES.G4.label, risk |-> CKD_STAGES.G4.risk]
  ELSE [stage |-> "G5", label |-> CKD_STAGES.G5.label, risk |-> CKD_STAGES.G5.risk]

\* Get CKD Stage
getCKDStage(eGFR) ==
  IF Ge(eGFR, Num(90)) THEN [stage |-> "G1", label |-> CKD_STAGES.G1.label, risk |-> CKD_STAGES.G1.risk]
  ELSE IF Ge(eGFR, Num(60)) THEN [stage |-> "G2", label |-> CKD_STAGES.G2.label, risk |-> CKD_STAGES.G2.risk]
  ELSE IF Ge(eGFR, Num(45)) THEN [stage |-> "G3a", label |-> CKD_STAGES.G3a.label, risk |-> CKD_STAGES.G3a.risk]
  ELSE IF Ge(eGFR, Num(30)) THEN [stage |-> "G3b", label |-> CKD_STAGES.G3b.label, risk |-> CKD_STAGES.G3b.risk]
  ELSE IF Ge(eGFR, Num(15)) THEN [stage |-> "G4", label |-> CKD_STAGES.G4.label, risk |-> CKD_STAGES.G4.risk]
  ELSE [stage |-> "G5", label |-> CKD_STAGES.G5.label, risk |-> CKD_STAGES.G5.risk]

\* what the results display shows: nothing without a result, else the value,
\* its stage and the formula name
NoDisplay == [k \in {} |-> 0]

ResultsDisplay(res, form) ==
  IF DOMAIN res = {}
    THEN NoDisplay
    ELSE LET stage == getCKDStage(res.eGFR)
         IN  [k \in {"eGFR", "stage", "label", "risk", "formula"} |->
                CASE k = "eGFR" -> res.eGFR
                  [] k = "stage" -> stage.stage
                  [] k = "label" -> stage.label
                  [] k = "risk" -> stage.risk
                  [] k = "formula" -> form]

(***************************************************************************)
(* Main calculator component.                                              *)
(***************************************************************************)
InitialFormData ==
  [age |-> <<>>, sex |-> "", creatinine |-> <<>>, creatinineUnit |-> "mg/dL", height |-> <<>>]

\* the value of useState(null): no result
NoResult == [k \in {} |-> 0]

\* the object { eGFR }
ResultOf(eGFR) == [k \in {"eGFR"} |-> eGFR]

\* formData[field] as a condition
Filled(fd, field) == IF field = "sex" THEN fd.sex # "" ELSE Truthy(fd[field])

isPediatric(fd) == Truthy(fd.age) /\ Lt(parseFloat(fd.age), Num(18))

\* newErrors without the height check
newErrors_noHeight(fd) ==
  LET ageError == validateAge(fd.age)
      creatError == validateCreatinine(fd.creatinine, fd.creatinineUnit)
      failing == {f \in {"age"} : Truthy(fd.age) /\ ageError # null}
                   \cup {f \in {"creatinine"} : Truthy(fd.creatinine) /\ creatError # null}
  IN  [f \in failing |-> CASE f = "age" -> ageError
                           [] f = "creatinine" -> creatError]

\* newErrors validating the height whatever the age
newErrors_heightAlways(fd) ==
  LET ageError == validateAge(fd.age)
      creatError == validateCreatinine(fd.creatinine, fd.creatinineUnit)
      heightError == validateHeight(fd.height)
      failing == {f \in {"age"} : Truthy(fd.age) /\ ageError # null}
                   \cup {f \in {"creatinine"} : Truthy(fd.creatinine) /\ creatError # null}
                   \cup {f \in {"height"} : Truthy(fd.height) /\ heightError # null}
  IN  [f \in failing |-> CASE f = "age" -> ageError
                           [] f = "creatinine" -> creatError
                           [] f = "height" -> heightError]

\* newErrors stopping at the first failure found
newErrors_firstOnly(fd) ==
  LET ageError == validateAge(fd.age)
      creatError == validateCreatinine(fd.creatinine, fd.creatinineUnit)
      heightError == validateHeight(fd.height)
  IN  IF Truthy(fd.age) /\ ageError # null THEN [f \in {"age"} |-> ageError]
      ELSE IF Truthy(fd.creatinine) /\ creatError # null THEN [f \in {"creatinine"} |-> creatError]
      ELSE IF isPediatric(fd) /\ Truthy(fd.height) /\ heightError # null
        THEN [f \in {"height"} |-> heightError]
      ELSE [f \in {} |-> null]

\* Validation effect: the errors it sets for the form data fd
newErrors(fd) ==
  LET ageError == validateAge(fd.age)
      creatError == validateCreatinine(fd.creatinine, fd.creatinineUnit)
      heightError == validateHeight(fd.height)
      failing == {f \in {"age"} : Truthy(fd.age) /\ ageError # null}
                   \cup {f \in {"creatinine"} : Truthy(fd.creatinine) /\ creatError # null}
                   \cup {f \in {"height"} : isPediatric(fd) /\ Truthy(fd.height) /\ heightError # null}
  IN  [f \in failing |-> CASE f = "age" -> ageError
                           [] f = "creatinine" -> creatError
                           [] f = "height" -> heightError]

\* convertCreatinine rounding the converted value to two decimals
convertCreatinine_rounded(value, fromUnit) ==
  IF fromUnit = "umol/L"
    THEN Div(Math_round(Mul(Div(parseFloat(value), <<884, 10>>), Num(100))), Num(100))
    ELSE parseFloat(value)

convertCreatinine(value, fromUnit) ==
  IF fromUnit = "umol/L"
    THEN Div(parseFloat(value), <<884, 10>>)
    ELSE parseFloat(value)

\* requiredFields with height pushed whatever the age
requiredFields_heightAlways(fd) == {"age", "sex", "creatinine", "height"}

requiredFields(fd) ==
  {"age", "sex", "creatinine"} \cup (IF isPediatric(fd) THEN {"height"} ELSE {})

\* isFormValid without the check of the errors
isFormValid_noErrorCheck(fd, errs) == \A field \in requiredFields(fd) : Filled(fd, field)

isFormValid(fd, errs) ==
  (\A field \in requiredFields(fd) : Filled(fd, field)) /\ DOMAIN errs = {}

Init ==
  /\ formData = InitialFormData
  /\ errors = newErrors(InitialFormData)
  /\ result = NoResult
  /\ formula = ""
  /\ display = ResultsDisplay(result, formula)
  /\ lastOp = "mount"

\* An edit of one field.  setFormData gives a new formData object, so the
\* validation effect (dependencies formData, isPediatric) runs on the render
\* that follows and sets errors from the new form data before the next event
\* is handled.
handleInputChange(field, value) ==
  /\ formData' = [formData EXCEPT ![field] = value]
  /\ errors' = newErrors(formData')
  /\ UNCHANGED <<result, formula>>
  /\ display' = ResultsDisplay(result', formula')
  /\ lastOp' = "handleInputChange"

\* calculate with age > 18 in place of age >= 18
calculate_gt18 ==
  /\ lastOp' = "calculate"
  /\ IF ~isFormValid(formData, errors)
       THEN UNCHANGED <<formData, errors, result, formula>>
       ELSE LET age == parseFloat(formData.age)
                creatinine == convertCreatinine(formData.creatinine, formData.creatinineUnit)
                isFemale == formData.sex = "female"
            IN  /\ IF Gt(age, Num(18))
                     THEN /\ result' = ResultOf(calculateCKDEPI2021(creatinine, age, isFemale))
                          /\ formula' = FORMULAS.CKD_EPI_2021.name
                     ELSE /\ result' = ResultOf(calculateSchwartz2009(creatinine, parseFloat(formData.height)))
                          /\ formula' = FORMULAS.SCHWARTZ_2009.name
                /\ UNCHANGED <<formData, errors>>
  /\ display' = ResultsDisplay(result', formula')

\* calculate keeping a result it has already stored
calculate_cached ==
  /\ lastOp' = "calculate"
  /\ IF ~isFormValid(formData, errors) \/ DOMAIN result # {}
       THEN UNCHANGED <<formData, errors, result, formula>>
       ELSE LET age == parseFloat(formData.age)
                creatinine == convertCreatinine(formData.creatinine, formData.creatinineUnit)
                isFemale == formData.sex = "female"
            IN  /\ IF Ge(age, Num(18))
                     THEN /\ result' = ResultOf(calculateCKDEPI2021(creatinine, age, isFemale))
                          /\ formula' = FORMULAS.CKD_EPI_2021.name
                     ELSE /\ result' = ResultOf(calculateSchwartz2009(creatinine, parseFloat(formData.height)))
                          /\ formula' = FORMULAS.SCHWARTZ_2009.name
                /\ UNCHANGED <<formData, errors>>
  /\ display' = ResultsDisplay(result', formula')

\* The Calculate button's handler.  The button is disabled while the form is
\* not valid; the handler makes the same test again and returns.
calculate ==
  /\ lastOp' = "calculate"
  /\ IF ~isFormValid(formData, errors)
       THEN UNCHANGED <<formData, errors, result, formula>>
       ELSE LET age == parseFloat(formData.age)
                creatinine == convertCreatinine(formData.creatinine, formData.creatinineUnit)
                isFemale == formData.sex = "female"
            IN  /\ IF Ge(age, Num(18))
                     THEN /\ result' = ResultOf(calculateCKDEPI2021(creatinine, age, isFemale))
                          /\ formula' = FORMULAS.CKD_EPI_2021.name
                     ELSE /\ result' = ResultOf(calculateSchwartz2009(creatinine, parseFloat(formData.height)))
                          /\ formula' = FORMULAS.SCHWARTZ_2009.name
                /\ UNCHANGED <<formData, errors>>
  /\ display' = ResultsDisplay(result', formula')

\* reset leaving the creatinine unit as selected
reset_keepsUnit ==
  /\ formData' = [InitialFormData EXCEPT !.creatinineUnit = formData.creatinineUnit]
  /\ errors' = newErrors(formData')
  /\ result' = NoResult
  /\ formula' = ""
  /\ display' = ResultsDisplay(result', formula')
  /\ lastOp' = "reset"

\* reset without setFormula('')
reset_keepsFormula ==
  /\ formData' = InitialFormData
  /\ errors' = newErrors(formData')
  /\ result' = NoResult
  /\ UNCHANGED formula
  /\ display' = ResultsDisplay(result', formula')
  /\ lastOp' = "reset"

\* The Reset button's handler, and the validation effect on the emptied form.
reset ==
  /\ formData' = InitialFormData
  /\ errors' = newErrors(formData')
  /\ result' = NoResult
  /\ formula' = ""
  /\ display' = ResultsDisplay(result', formula')
  /\ lastOp' = "reset"

EditAge == \E v \in AgeInputs : handleInputChange("age", v)

EditSex == \E v \in SexInputs \ {""} : handleInputChange("sex", v)

EditCreatinine == \E v \in CreatinineInputs : handleInputChange("creatinine", v)

EditUnit == \E v \in UnitInputs : handleInputChange("creatinineUnit", v)

\* the height input is rendered only while isPediatric
EditHeight == isPediatric(formData) /\ \E v \in HeightInputs : handleInputChange("height", v)

Next == EditAge \/ EditSex \/ EditCreatinine \/ EditUnit \/ EditHeight \/ calculate \/ reset

Spec == Init /\ [][Next]_vars

(***************************************************************************)
(* The form grid: the calculator once a form has been typed in and         *)
(* validated, whatever the form; then the unit is switched and Calculate   *)
(* is requested.                                                           *)
(***************************************************************************)
FormInputs ==
  [age : {<<>>} \cup FirstOf(AgeTexts, NumFormAges),
   sex : SexInputs,
   creatinine : {<<>>} \cup FirstOf(CreatinineTexts, NumFormCreatinines),
   creatinineUnit : UnitInputs,
   height : {<<>>} \cup FirstOf(HeightTexts, NumFormHeights)]

InitForm ==
  /\ formData \in FormInputs
  /\ errors = newErrors(formData)
  /\ result = NoResult
  /\ formula = ""
  /\ display = ResultsDisplay(result, formula)
  /\ lastOp = "handleInputChange"

NextForm == EditUnit \/ calculate

SpecForm == InitForm /\ [][NextForm]_vars

(***************************************************************************)
(* The results display on its own: any integer eGFR with either formula    *)
(* name is handed to ResultsDisplay, which looks the stage up.             *)
(***************************************************************************)
InitStage ==
  /\ formData = InitialFormData
  /\ errors = newErrors(formData)
  /\ result \in {ResultOf(Num(e)) : e \in (-MaxEGFR)..MaxEGFR}
  /\ formula \in {FORMULAS.CKD_EPI_2021.name, FORMULAS.SCHWARTZ_2009.name}
  /\ display = NoDisplay
  /\ lastOp = "mount"

Render ==
  /\ lastOp = "mount"
  /\ display' = ResultsDisplay(result, formula)
  /\ lastOp' = "render"
  /\ UNCHANGED <<formData, errors, result, formula>>

NextStage == Render

SpecStage == InitStage /\ [][NextStage]_vars

(***************************************************************************)
(* Properties.                                                             *)
(***************************************************************************)
HasResult == DOMAIN result # {}

HasErrors == DOMAIN errors # {}

\* the value of the stored result
Value == result.eGFR[1]

\* the entered fields of a form fd, their numbers and the validators' ranges
AgeIn(fd) == parseFloat(fd.age)

AgeEnteredIn(fd) == fd.age # <<>>

AgeRejectedIn(fd) == Lt(AgeIn(fd), Num(1)) \/ Gt(AgeIn(fd), Num(120))

AdultIn(fd) == AgeEnteredIn(fd) /\ Ge(AgeIn(fd), Num(18))

AgeNum == AgeIn(formData)

CreatinineNum == parseFloat(formData.creatinine)

HeightNum == parseFloat(formData.height)

AgeEntered == AgeEnteredIn(formData)

CreatinineEntered == formData.creatinine # <<>>

HeightEntered == formData.height # <<>>

Minor == AgeEntered /\ Lt(AgeNum, Num(18))

AgeRejected == AgeRejectedIn(formData)

CreatinineRejected ==
  \/ Le(CreatinineNum, Num(0))
  \/ formData.creatinineUnit = "mg/dL" /\ Gt(CreatinineNum, Num(20))
  \/ formData.creatinineUnit = "umol/L" /\ Gt(CreatinineNum, Num(1768))

HeightRejected == Lt(HeightNum, Num(30)) \/ Gt(HeightNum, Num(250))

\* the validators that apply to the entered fields, and whether one fails
AgeFails == AgeEntered /\ AgeRejected

CreatinineFails == CreatinineEntered /\ CreatinineRejected

HeightFails == Minor /\ HeightEntered /\ HeightRejected

AnyValidatorFails == AgeFails \/ CreatinineFails \/ HeightFails

\* every field a calculation needs has been entered
AllRequiredEntered ==
  /\ AgeEntered
  /\ formData.sex # ""
  /\ CreatinineEntered
  /\ Minor => HeightEntered

\* C1 (as stated): the calculator never holds a result together with a
\* non-empty failure map.
C1_NoResultWithError == ~(HasResult /\ HasErrors)

\* C1 (amended): Calculate never produces a result alongside an error: a
\* Calculate request either leaves the failure map empty or leaves the stored
\* result and formula name as they were.
C1_NoResultProducedWithError ==
  [][lastOp' = "calculate" => (DOMAIN errors' = {} \/ (result' = result /\ formula' = formula))]_vars

C1_Witness == lastOp = "calculate" /\ HasResult /\ ~HasErrors

C3_InvalidCalculateKeepsResult ==
  [][(lastOp' = "calculate" /\ AnyValidatorFails) =>
       (result' = result /\ formula' = formula /\ display' = display)]_vars

C3_Witness == lastOp = "calculate" /\ AnyValidatorFails /\ HasResult

\* C4: the failure map has an entry for every entered field whose validator
\* fails, all of them at once, and none for a field whose validator passes.
C4_AllFailuresReported ==
  /\ "age" \in DOMAIN errors <=> AgeFails
  /\ "creatinine" \in DOMAIN errors <=> CreatinineFails
  /\ "height" \in DOMAIN errors <=> HeightFails
  /\ DOMAIN errors \subseteq {"age", "creatinine", "height"}

C4_Witness == DOMAIN errors = {"age", "creatinine", "height"}

\* no validator fails and every required field is entered
ValidInput == AllRequiredEntered /\ ~AnyValidatorFails

Adult == AdultIn(formData)

CanonicalCreatinine == convertCreatinine(formData.creatinine, formData.creatinineUnit)

\* C5: a successful calculation uses the formula chosen by age alone, CKD-EPI
\* 2021 for ages in [18, 120] and Bedside Schwartz 2009 for ages in [1, 18),
\* and the formula name stored and shown with the result is the name of the
\* formula that computed the value.
C5_FormulaByAge ==
  (lastOp = "calculate" /\ ValidInput) =>
     /\ HasResult
     /\ Ge(AgeNum, Num(1)) /\ Le(AgeNum, Num(120))
     /\ display.formula = formula
     /\ display.eGFR = result.eGFR
     /\ IF Ge(AgeNum, Num(18))
          THEN /\ formula = "CKD-EPI 2021"
               /\ result.eGFR = calculateCKDEPI2021(CanonicalCreatinine, AgeNum, formData.sex = "female")
          ELSE /\ formula = "Bedside Schwartz 2009"
               /\ result.eGFR = calculateSchwartz2009(CanonicalCreatinine, HeightNum)

C5_Witness ==
  /\ lastOp = "calculate"
  /\ ValidInput
  /\ formData.age = <<"1","8">>
  /\ formData.height = <<>>
  /\ formula = "CKD-EPI 2021"

\* C6: height is validated and required only below 18: there a calculation
\* proceeds only if the height is entered and within [30, 250], both bounds
\* accepted; from 18 on no height, missing, out of range or left over,
\* produces a height failure or blocks the calculation.
C6_Step ==
  /\ AdultIn(formData') => "height" \notin DOMAIN errors'
  /\ (lastOp' = "calculate" /\ Minor /\ (~HeightEntered \/ HeightRejected)) =>
       (result' = result /\ formula' = formula)
  /\ (lastOp' = "calculate" /\ Minor /\ ValidInput) =>
       (DOMAIN result' # {} /\ formula' = "Bedside Schwartz 2009")
  /\ (lastOp' = "calculate" /\ Adult /\ ~AgeFails /\ ~CreatinineFails
        /\ CreatinineEntered /\ formData.sex # "") =>
       (DOMAIN result' # {} /\ formula' = "CKD-EPI 2021")

C6_HeightOnlyPediatric == [][C6_Step]_vars

C6_Witness ==
  /\ lastOp = "calculate"
  /\ Adult
  /\ formData.height = <<"2","9">>
  /\ ~HasErrors
  /\ HasResult
  /\ formula = "CKD-EPI 2021"

\* C7: a creatinine value is rejected exactly when it is <= 0, or > 20 under
\* mg/dL, or > 1768 under umol/L; a value in (20, 1768] is accepted under
\* umol/L and rejected under mg/dL, and the failure map follows the unit
\* currently selected.
C7_CreatinineThresholds ==
  CreatinineEntered =>
     /\ validateCreatinine(formData.creatinine, formData.creatinineUnit) # null <=> CreatinineRejected
     /\ "creatinine" \in DOMAIN errors <=> CreatinineRejected
     /\ (Gt(CreatinineNum, Num(20)) /\ Le(CreatinineNum, Num(1768))) =>
          ("creatinine" \in DOMAIN errors <=> formData.creatinineUnit = "mg/dL")

C7_Witness ==
  /\ formData.creatinine = <<"1","7","6","8">>
  /\ formData.creatinineUnit = "mg/dL"
  /\ "creatinine" \in DOMAIN errors
  /\ HasResult

\* C8: an age is rejected exactly when it is below 1 or above 120, 1 and 120
\* being accepted; for a rejected age a failure is reported for the age field
\* and a Calculate request computes nothing.
C8_Step ==
  /\ AgeEnteredIn(formData') => ("age" \in DOMAIN errors' <=> AgeRejectedIn(formData'))
  /\ AgeEnteredIn(formData') => (validateAge(formData'.age) # null <=> AgeRejectedIn(formData'))
  /\ (lastOp' = "calculate" /\ AgeEntered /\ AgeRejected) =>
       ("age" \in DOMAIN errors' /\ result' = result /\ formula' = formula)

C8_AgeBounds == [][C8_Step]_vars

C8_Witness ==
  /\ lastOp = "calculate"
  /\ formData.age = <<"1","5","0">>
  /\ formData.sex # ""
  /\ CreatinineEntered /\ ~CreatinineFails
  /\ "age" \in DOMAIN errors
  /\ ~HasResult

\* the stage and risk of the bands of the KDIGO table
BandStage(e) ==
  IF e >= 90 THEN "G1"
  ELSE IF e \in 60..89 THEN "G2"
  ELSE IF e \in 45..59 THEN "G3a"
  ELSE IF e \in 30..44 THEN "G3b"
  ELSE IF e \in 15..29 THEN "G4"
  ELSE "G5"

BandRisk(e) ==
  IF e >= 60 THEN "Low"
  ELSE IF e \in 45..59 THEN "Moderate"
  ELSE IF e \in 30..44 THEN "High"
  ELSE "Very High"

StageRank(st) ==
  CASE st = "G5" -> 0 [] st = "G4" -> 1 [] st = "G3b" -> 2
    [] st = "G3a" -> 3 [] st = "G2" -> 4 [] st = "G1" -> 5

\* C9: the stage shown is the band of the integer eGFR value, whatever the
\* formula name: >= 90 G1, 60..89 G2, 45..59 G3a, 30..44 G3b, 15..29 G4 and
\* <= 14 (zero and negative values included) G5, with the band's risk; the
\* stage never decreases from a value to the next one.
C9_StageBands ==
  lastOp = "render" =>
     /\ display.eGFR = result.eGFR
     /\ display.stage = BandStage(Value)
     /\ display.risk = BandRisk(Value)
     /\ StageRank(display.stage) <= StageRank(getCKDStage(Num(Value + 1)).stage)

C9_Witness == lastOp = "render" /\ Value < 0 /\ display.stage = "G5" /\ display.risk = "Very High"

\* 0.413 * height / creatinine in mg/dL, as an exact fraction
SchwartzExact ==
  LET perMgDl == IF formData.creatinineUnit = "umol/L" THEN <<884, 10>> ELSE <<1, 1>>
  IN  Norm(413 * HeightNum[1] * CreatinineNum[2] * perMgDl[1],
           1000 * HeightNum[2] * CreatinineNum[1] * perMgDl[2])

\* C10: for a valid pediatric input the result is the integer nearest to
\* 0.413 * height / creatinine in mg/dL; height 120 cm and creatinine
\* 0.5 mg/dL give 99, stage G1.
C10_SchwartzValue ==
  (lastOp = "calculate" /\ Minor /\ ValidInput) =>
     /\ HasResult
     /\ formula = "Bedside Schwartz 2009"
     /\ result.eGFR[2] = 1
     /\ 2 * Abs(Value * SchwartzExact[2] - SchwartzExact[1]) <= SchwartzExact[2]
     /\ (HeightNum = Num(120) /\ CanonicalCreatinine = <<1, 2>>) =>
          (Value = 99 /\ display.stage = "G1")

C10_Witness ==
  /\ lastOp = "calculate"
  /\ ValidInput
  /\ formData.age = <<"1","0">>
  /\ formData.height = <<"1","2","0">>
  /\ formData.creatinine = <<"0",".","5">>
  /\ formData.creatinineUnit = "mg/dL"
  /\ Value = 99
  /\ display.stage = "G1"

\* the entered creatinine in mg/dL: the entered number under mg/dL, the
\* entered number over 88.4 under umol/L
CreatinineMgDl ==
  IF formData.creatinineUnit = "umol/L"
    THEN Norm(CreatinineNum[1] * 10, CreatinineNum[2] * 884)
    ELSE CreatinineNum

\* ln of 142 * min(Cr/kappa, 1)^alpha * max(Cr/kappa, 1)^(-1.200) * 0.9938^age
\* * sexFactor for the entered form, in fixed point
CKDEPILog ==
  LET female == formData.sex = "female"
      kappa == IF female THEN <<7, 10>> ELSE <<9, 10>>
      alpha == IF female THEN <<-241, 1000>> ELSE <<-302, 1000>>
      sexFactor == IF female THEN <<1012, 1000>> ELSE <<1, 1>>
      ratio == Norm(CreatinineMgDl[1] * kappa[2], CreatinineMgDl[2] * kappa[1])
      minTerm == IF Lt(ratio, Num(1)) THEN ratio ELSE Num(1)
      maxTerm == IF Gt(ratio, Num(1)) THEN ratio ELSE Num(1)
  IN  Math_log(142, 1)
        + MulNum(Math_log(minTerm[1], minTerm[2]), alpha)
        + MulNum(Math_log(maxTerm[1], maxTerm[2]), <<-12, 10>>)
        + MulNum(Math_log(9938, 10000), AgeNum)
        + Math_log(sexFactor[1], sexFactor[2])

\* C11: for a valid adult input the result is a positive integer r with
\* r - 1/2 <= 142 * min(Cr/kappa, 1)^alpha * max(Cr/kappa, 1)^(-1.200)
\* * 0.9938^age * sexFactor <= r + 1/2 (compared through logarithms, to one
\* part in a million), kappa, alpha and sexFactor being 0.7, -0.241, 1.012
\* for female and 0.9, -0.302, 1.0 for male, with no further factor.
C11_CKDEPIValue ==
  (lastOp = "calculate" /\ Adult /\ ValidInput) =>
     /\ HasResult
     /\ formula = "CKD-EPI 2021"
     /\ result.eGFR[2] = 1
     /\ Value >= 1
     /\ Math_log(2 * Value - 1, 2) - ONE \div (10 ^ 6) <= CKDEPILog
     /\ CKDEPILog <= Math_log(2 * Value + 1, 2) + ONE \div (10 ^ 6)

C11_Witness ==
  /\ lastOp = "calculate"
  /\ ValidInput
  /\ formData.age = <<"7","0">>
  /\ formData.sex = "female"
  /\ formData.creatinine = <<"1">>
  /\ formData.creatinineUnit = "mg/dL"
  /\ Value = 61

\* C12: the creatinine a calculation passes to its formula is the entered
\* number under mg/dL and exactly the entered number over 88.4 under umol/L:
\* the stored value is the formula's value at that creatinine, which is not
\* rounded on the way.
C12_ConversionExact ==
  (lastOp = "calculate" /\ ValidInput) =>
     /\ HasResult
     /\ formData.creatinineUnit = "mg/dL" => CanonicalCreatinine = CreatinineNum
     /\ formData.creatinineUnit = "umol/L" =>
          /\ CanonicalCreatinine[1] * CreatinineNum[2] * 884
               = CreatinineNum[1] * 10 * CanonicalCreatinine[2]
          /\ CanonicalCreatinine = CreatinineMgDl
     /\ result.eGFR =
          IF Adult
            THEN calculateCKDEPI2021(CreatinineMgDl, AgeNum, formData.sex = "female")
            ELSE calculateSchwartz2009(CreatinineMgDl, HeightNum)

\* 25 umol/L is 0.2828... mg/dL: with 120 cm the value is 175, and it would
\* be 177 from a creatinine rounded to 0.28
C12_Witness ==
  /\ lastOp = "calculate"
  /\ ValidInput
  /\ formData.creatinineUnit = "umol/L"
  /\ formData.creatinine = <<"2","5">>
  /\ formData.height = <<"1","2","0">>
  /\ formula = "Bedside Schwartz 2009"
  /\ Value = 175

\* a Calculate request that gets past isFormValid with an age that is not
\* >= 18 calls calculateSchwartz2009
SchwartzInvoked ==
  /\ isFormValid(formData, errors)
  /\ ~Ge(parseFloat(formData.age), Num(18))

\* C13: in every order of field edits (each followed by its validation run),
\* Calculate requests and resets, a Calculate request that calls the Bedside
\* Schwartz formula passes it a creatinine in mg/dL that is a finite number
\* strictly greater than zero, and the value it stores is finite.
C13_Step ==
  (lastOp' = "calculate" /\ SchwartzInvoked) =>
     /\ isFinite(CanonicalCreatinine)
     /\ CanonicalCreatinine[1] > 0
     /\ DOMAIN result' # {}
     /\ isFinite(result'.eGFR)

FieldsValue ==
  IF Adult
    THEN calculateCKDEPI2021(CreatinineMgDl, AgeNum, formData.sex = "female")
    ELSE calculateSchwartz2009(CreatinineMgDl, HeightNum)

FieldsFormula == IF Adult THEN "CKD-EPI 2021" ELSE "Bedside Schwartz 2009"

FieldsFailures ==
  {f \in {"age"} : AgeFails} \cup {f \in {"creatinine"} : CreatinineFails}
    \cup {f \in {"height"} : HeightFails}

\* C14: the outcome of a Calculate request is a function of the field values
\* at the request, whatever edits, calculations and resets came before: for
\* valid fields the value, formula name and stage stored and shown are those
\* of the fields; otherwise the failures are those of the fields and the
\* request stores nothing.
C14_Step ==
  lastOp' = "calculate" =>
     /\ DOMAIN errors' = FieldsFailures
     /\ IF ValidInput
          THEN /\ result' = ResultOf(FieldsValue)
               /\ formula' = FieldsFormula
               /\ display' = ResultsDisplay(ResultOf(FieldsValue), FieldsFormula)
          ELSE result' = result /\ formula' = formula

C14_OutcomeFromFieldsOnly == [][C14_Step]_vars

\* an adult calculation made with the height of an earlier pediatric entry
\* still in the form
C14_Witness ==
  /\ lastOp = "calculate"
  /\ ValidInput
  /\ Adult
  /\ formData.height # <<>>
  /\ formula = "CKD-EPI 2021"
  /\ result = ResultOf(FieldsValue)
  /\ display.stage = getCKDStage(FieldsValue).stage

\* C15: the stored result and the stored formula name are set or cleared
\* together: a result is present exactly when the name is not empty, and a
\* step that changes either one clears both (Reset) or stores a value with
\* the name of the formula that computed it (Calculate).
C15_Step ==
  /\ HasResult <=> formula # ""
  /\ DOMAIN result' # {} <=> formula' # ""
  /\ (result' # result \/ formula' # formula) =>
       \/ lastOp' = "reset" /\ result' = NoResult /\ formula' = ""
       \/ /\ lastOp' = "calculate"
          /\ \/ /\ formula' = "CKD-EPI 2021"
                /\ Adult
                /\ result' = ResultOf(calculateCKDEPI2021(CreatinineMgDl, AgeNum,
                                                          formData.sex = "female"))
             \/ /\ formula' = "Bedside Schwartz 2009"
                /\ Minor
                /\ result' = ResultOf(calculateSchwartz2009(CreatinineMgDl, HeightNum))

C15_ResultAndFormulaTogether == [][C15_Step]_vars

\* a Schwartz value and name held while the form has moved on to an adult age
C15_Witness ==
  /\ HasResult
  /\ formula = "Bedside Schwartz 2009"
  /\ display.formula = "Bedside Schwartz 2009"
  /\ Adult
  /\ lastOp = "handleInputChange"

\* C16: from any reachable state a Reset, with the validation run that
\* follows it, clears the result and the formula name, empties age, sex,
\* creatinine and height, sets the unit to mg/dL and leaves the failure map
\* empty: nothing is displayed and Calculate is disabled, as after mounting.
C16_Step ==
  lastOp' = "reset" =>
     /\ result' = NoResult
     /\ formula' = ""
     /\ formData'.age = <<>>
     /\ formData'.sex = ""
     /\ formData'.creatinine = <<>>
     /\ formData'.height = <<>>
     /\ formData'.creatinineUnit = "mg/dL"
     /\ DOMAIN formData' = {"age", "sex", "creatinine", "creatinineUnit", "height"}
     /\ DOMAIN errors' = {}
     /\ display' = NoDisplay
     /\ ~isFormValid(formData', errors')

C16_ResetRestoresInitial == [][C16_Step]_vars

C16_Witness ==
  /\ lastOp = "reset"
  /\ formData = InitialFormData
  /\ ~HasResult
  /\ formula = ""
  /\ ~HasErrors
  /\ ~isFormValid(formData, errors)

====
